---- MODULE Spec2Model ----
(***************************************************************************)
(* A model of cnf-fuzz-horn.py: from one seed CNF formula the program      *)
(* derives `count` variants; variant i is a deep copy of the seed whose    *)
(* Horn-clause count is moved toward i * step and which, with probability  *)
(* 0.75, is then repaired (make_satisfiable) under a first-occurrence      *)
(* assignment.  Variants are generated by a thread pool.                   *)
(*                                                                         *)
(* Python lists are objects: `store[r]` is the heap of run r, a map from   *)
(* a list reference to the clause list it holds.  Reference 0 is the list  *)
(* `clauses` returned by parse_cnf_file; `ref[r][i]` is the reference that *)
(* task i's local `modified_clauses` holds.  Positions are 1-based here    *)
(* and 0-based in the source.                                              *)
(***************************************************************************)
EXTENDS Integers, Sequences, FiniteSets, TLC

VARIABLES
    cnf_file,            \* the clause lines of the input file (never written)
    header,              \* the "p cnf <vars> <clauses>" line, as its tokens
    count,               \* --count
    threads,             \* --threads
    seedArg,             \* --seed: <<>> when unset, <<s>> when set to s
    store,               \* store[r][ref]: the clause list a reference holds
    ref,                 \* ref[r][i]: modified_clauses of task i
    pc,                  \* pc[r][i]: where task i of run r stands
    horn_count,          \* horn_count[r][i]: generate_instance's counter
    k,                   \* k[r][i]: position of the running for-loop
    solution,            \* solution[r][i]: make_satisfiable's assignment
    current_horn_count,  \* current_horn_count[r][i]: make_satisfiable's counter
    out,                 \* out[r][i]: the lines written to variant i's file
    tape,                \* the values a seeded generator has produced so far
    rpos,                \* rpos[r]: how many values run r has drawn
    seen,                \* seen[r][i]: what make_satisfiable met at each clause
    drawn                \* drawn[r][i]: the variables set by random.choice

vars == <<cnf_file, header, count, threads, seedArg, store, ref, pc, horn_count,
          k, solution, current_horn_count, out, tape, rpos, seen, drawn>>

(***************************************************************************)
(* Bounds of the model.                                                    *)
(***************************************************************************)
MaxLits == 3      \* literals in a seed formula, all clauses together
MaxVars == 2      \* num_vars of the header
MaxCount == 2     \* --count
MaxThreads == 2   \* --threads

(***************************************************************************)
(* Formulas.                                                               *)
(***************************************************************************)
Abs(x) == IF x < 0 THEN -x ELSE x

Max(a, b) == IF a > b THEN a ELSE b

Min(a, b) == IF a < b THEN a ELSE b

Literals(nv) == {l \in (-nv)..nv : l # 0}

ClausesOfLen(nv, n) == [1..n -> Literals(nv)]

\* every clause list over variables 1..nv with at most b literals in all,
\* no clause empty
RECURSIVE Formulas(_, _)
Formulas(nv, b) ==
    {<<>>} \cup UNION { UNION { {<<c>> \o f : f \in Formulas(nv, b - n)}
                                : c \in ClausesOfLen(nv, n) }
                        : n \in 1..b }

PositiveLits(clause) == SelectSeq(clause, LAMBDA l : l > 0)

NegativeLits(clause) == SelectSeq(clause, LAMBDA l : l < 0)

\* len([lit for lit in clause if lit > 0])
PosCount(clause) == Len(PositiveLits(clause))

IsHorn(clause) == PosCount(clause) <= 1

is_clause_satisfied(clause, sol) ==
    \E p \in 1..Len(clause) : sol[Abs(clause[p])] = (clause[p] > 0)

count_horn_clauses(cls) == Cardinality({j \in 1..Len(cls) : IsHorn(cls[j])})

\* clause.index(v): the first position holding v
IndexOf(clause, v) ==
    CHOOSE p \in 1..Len(clause) :
        clause[p] = v /\ \A q \in 1..(p - 1) : clause[q] # v

(***************************************************************************)
(* The Horn-count adjuster (generate_instance, lines 127-146).             *)
(***************************************************************************)
\* for lit_to_flip in lits: clause[clause.index(lit_to_flip)] = -lit_to_flip
RECURSIVE NegateEach(_, _)
NegateEach(clause, lits) ==
    IF lits = <<>> THEN clause
    ELSE NegateEach([clause EXCEPT ![IndexOf(clause, Head(lits))] = -Head(lits)],
                    Tail(lits))

\* for lit_to_flip in lits: clause[clause.index(lit_to_flip)] = abs(lit_to_flip)
RECURSIVE AbsEach(_, _)
AbsEach(clause, lits) ==
    IF lits = <<>> THEN clause
    ELSE AbsEach([clause EXCEPT ![IndexOf(clause, Head(lits))] = Abs(Head(lits))],
                 Tail(lits))

\* a slip: only the first positive literal is negated (positive_literals[:1])
RaiseClauseFirstOnly(clause) ==
    LET positive_literals == PositiveLits(clause)
    IN  IF Len(positive_literals) > 1
        THEN NegateEach(clause, SubSeq(positive_literals, 1, 1))
        ELSE clause

\* a slip: the negated literal is written at the head of the clause
RaiseClauseAtHead(clause) ==
    LET positive_literals == PositiveLits(clause)
    IN  IF Len(positive_literals) > 1
        THEN [clause EXCEPT ![1] = -positive_literals[1]]
        ELSE clause

\* lines 131-134: one iteration of the raising loop on a clause
RaiseClause(clause) ==
    LET positive_literals == PositiveLits(clause)
    IN  IF Len(positive_literals) > 1
        THEN NegateEach(clause,
                        SubSeq(positive_literals, 1, Len(positive_literals) - 1))
        ELSE clause

\* line 135: the counter after that iteration
RaiseCount(clause, hc) == IF PosCount(clause) > 1 THEN hc + 1 ELSE hc

\* a slip: only one negative literal is made positive (neg_literals[:1])
LowerClauseOne(clause) ==
    IF PosCount(clause) <= 1
    THEN LET neg_literals == NegativeLits(clause)
         IN  AbsEach(clause, SubSeq(neg_literals, 1, Min(1, Len(neg_literals))))
    ELSE clause

\* lines 141-144: one iteration of the lowering loop on a clause
LowerClause(clause) ==
    IF PosCount(clause) <= 1
    THEN LET neg_literals == NegativeLits(clause)
         IN  AbsEach(clause, SubSeq(neg_literals, 1, Min(2, Len(neg_literals))))
    ELSE clause

\* lines 141, 145-146: the counter after that iteration
LowerCount(clause, hc) ==
    IF PosCount(clause) <= 1 /\ PosCount(LowerClause(clause)) >= 2
    THEN hc - 1 ELSE hc

(***************************************************************************)
(* generate_solution (lines 34-52).                                        *)
(***************************************************************************)
\* a slip: the test `var not in solution` is lost, so the last occurrence wins
RECURSIVE ScanLitsLastWins(_, _, _, _)
ScanLitsLastWins(clause, p, sol, nv) ==
    IF p > Len(clause) THEN sol
    ELSE LET var == Abs(clause[p])
             s2 == [v \in DOMAIN sol \cup {var} |->
                       IF v = var THEN clause[p] > 0 ELSE sol[v]]
         IN  ScanLitsLastWins(clause, p + 1, s2, nv)

\* lines 38-43: the scan of one clause, from position p, with the inner break
RECURSIVE ScanLits(_, _, _, _)
ScanLits(clause, p, sol, nv) ==
    IF p > Len(clause) THEN sol
    ELSE LET var == Abs(clause[p])
         IN  IF var \notin DOMAIN sol
             THEN LET s2 == sol @@ (var :> (clause[p] > 0))
                  IN  IF Cardinality(DOMAIN s2) = nv THEN s2
                      ELSE ScanLits(clause, p + 1, s2, nv)
             ELSE ScanLits(clause, p + 1, sol, nv)

\* lines 37-45: the scan of the clauses from clause j, with the outer break
RECURSIVE ScanClauses(_, _, _, _)
ScanClauses(cls, j, sol, nv) ==
    IF j > Len(cls) THEN sol
    ELSE LET s2 == ScanLits(cls[j], 1, sol, nv)
         IN  IF Cardinality(DOMAIN s2) = nv THEN s2
             ELSE ScanClauses(cls, j + 1, s2, nv)

\* lines 48-49: the variables the fallback loop still has to set
Unset(sol, nv) == {v \in 1..nv : v \notin DOMAIN sol}

(***************************************************************************)
(* make_satisfiable, the repair of one clause (lines 61-109).              *)
(***************************************************************************)
\* enumerate(clause), as <<index, lit>> pairs
Enumerate(clause) == [p \in 1..Len(clause) |-> <<p, clause[p]>>]

\* line 64
PositivePairs(clause) == SelectSeq(Enumerate(clause), LAMBDA e : e[2] > 0)

\* line 65
NegativePairs(clause) == SelectSeq(Enumerate(clause), LAMBDA e : e[2] < 0)

\* for index, lit in pairs:
\*     if not satisfied(clause) and solution[abs(lit)] == False: clause[index] = -abs(lit)
RECURSIVE NegatePass(_, _, _)
NegatePass(clause, sol, pairs) ==
    IF pairs = <<>> THEN clause
    ELSE LET index == Head(pairs)[1]
             lit == Head(pairs)[2]
         IN  NegatePass(IF ~is_clause_satisfied(clause, sol) /\ sol[Abs(lit)] = FALSE
                        THEN [clause EXCEPT ![index] = -Abs(lit)]
                        ELSE clause,
                        sol, Tail(pairs))

\* for index, lit in pairs:
\*     if not satisfied(clause) and solution[abs(lit)] == True: clause[index] = abs(lit)
RECURSIVE PositPass(_, _, _)
PositPass(clause, sol, pairs) ==
    IF pairs = <<>> THEN clause
    ELSE LET index == Head(pairs)[1]
             lit == Head(pairs)[2]
         IN  PositPass(IF ~is_clause_satisfied(clause, sol) /\ sol[Abs(lit)] = TRUE
                       THEN [clause EXCEPT ![index] = Abs(lit)]
                       ELSE clause,
                       sol, Tail(pairs))

\* for index, lit in pairs: if solution[abs(lit)] == True: clause[index] = abs(lit)
RECURSIVE PositAll(_, _, _)
PositAll(clause, sol, pairs) ==
    IF pairs = <<>> THEN clause
    ELSE LET index == Head(pairs)[1]
             lit == Head(pairs)[2]
         IN  PositAll(IF sol[Abs(lit)] = TRUE
                      THEN [clause EXCEPT ![index] = Abs(lit)]
                      ELSE clause,
                      sol, Tail(pairs))

\* lines 72-73 and 97-98: the counter rises when the clause ends satisfied and Horn
CountUp(clause, sol, chc) ==
    IF is_clause_satisfied(clause, sol) /\ PosCount(clause) <= 1
    THEN chc + 1 ELSE chc

\* lines 85-86 and 108-109: it drops when the clause ends satisfied and not Horn
CountDown(clause, sol, chc) ==
    IF is_clause_satisfied(clause, sol) /\ PosCount(clause) > 1
    THEN chc - 1 ELSE chc

\* a slip: the counter rises whenever the clause ends satisfied
FixLowManyAnyShape(clause, sol, chc) ==
    LET c1 == NegatePass(clause, sol, PositivePairs(clause))
    IN  <<c1, IF is_clause_satisfied(c1, sol) THEN chc + 1 ELSE chc>>

\* lines 69-73: counter at or below the target, more than one positive literal
FixLowMany(clause, sol, chc) ==
    LET c1 == NegatePass(clause, sol, PositivePairs(clause))
    IN  <<c1, CountUp(c1, sol, chc)>>

\* a slip: the second pass, over the negative literals, is lost
FixLowFewNoPosit(clause, sol, chc) ==
    LET c1 == NegatePass(clause, sol, PositivePairs(clause))
    IN  <<c1, CountDown(c1, sol, chc)>>

\* lines 75-86: counter at or below the target, at most one positive literal
FixLowFew(clause, sol, chc) ==
    IF is_clause_satisfied(clause, sol) THEN <<clause, chc>>
    ELSE LET c1 == NegatePass(clause, sol, PositivePairs(clause))
             c2 == PositPass(c1, sol, NegativePairs(clause))
         IN  <<c2, CountDown(c2, sol, chc)>>

\* lines 89-98: counter above the target, more than one positive literal
FixHighMany(clause, sol, chc) ==
    IF is_clause_satisfied(clause, sol) THEN <<clause, chc>>
    ELSE LET c1 == PositAll(clause, sol, NegativePairs(clause))
             c2 == NegatePass(c1, sol, PositivePairs(clause))
         IN  <<c2, CountUp(c2, sol, chc)>>

\* lines 100-109: counter above the target, at most one positive literal
FixHighFew(clause, sol, chc) ==
    IF ~is_clause_satisfied(clause, sol)
    THEN LET c1 == PositAll(clause, sol, NegativePairs(clause))
             c2 == NegatePass(c1, sol, PositivePairs(clause))
         IN  <<c2, CountDown(c2, sol, chc)>>
    ELSE <<clause, chc>>

\* lines 67, 68, 88: the choice among the four policies
Policy(clause, sol, chc, target_horn_count) ==
    IF chc <= target_horn_count
    THEN IF Len(PositivePairs(clause)) > 1
         THEN FixLowMany(clause, sol, chc) ELSE FixLowFew(clause, sol, chc)
    ELSE IF Len(PositivePairs(clause)) > 1
         THEN FixHighMany(clause, sol, chc) ELSE FixHighFew(clause, sol, chc)

\* a slip: the tests that skip a satisfied clause are lost (lines 61 and 89)
RepairClauseNoSkip(clause, sol, chc, target_horn_count) ==
    IF chc > target_horn_count /\ Len(PositivePairs(clause)) > 1
    THEN LET c1 == PositAll(clause, sol, NegativePairs(clause))
             c2 == NegatePass(c1, sol, PositivePairs(clause))
         IN  <<c2, CountUp(c2, sol, chc)>>
    ELSE Policy(clause, sol, chc, target_horn_count)

\* lines 61-109: one iteration of make_satisfiable's loop, <<clause, counter>>
RepairClause(clause, sol, chc, target_horn_count) ==
    IF is_clause_satisfied(clause, sol) THEN <<clause, chc>>
    ELSE Policy(clause, sol, chc, target_horn_count)

(***************************************************************************)
(* The run: create_horn_instances and the pool (lines 113-166).            *)
(***************************************************************************)
Runs == DOMAIN pc

Tasks == 0..(count - 1)

\* line 115-117: the header's fields
NumVars == header[3]

NumClauses == header[4]

\* line 118
Step == Max(NumClauses \div count, 1)

\* line 121
Target(i) == i * Step

\* a slip: no copy is made (modified_clauses = clauses)
AllocRefAlias(i) == 0

\* line 122: the list object the comprehension builds for task i
AllocRef(i) == i + 1

\* line 122: [clause[:] for clause in clauses], stored under dst
DeepCopy(st, src, dst) == [st EXCEPT ![dst] = st[src]]

\* modified_clauses, as task i of run r sees it
Modified(r, i) == store[r][ref[r][i]]

\* the tasks a worker thread is running
Active(r) == {i \in Tasks : pc[r][i] \notin {"queued", "done"}}

\* line 166: pool.map hands the indices out in order, one per chunk for the
\* counts modelled here (the chunk size is 1 while count <= 4 * threads)
NextTask(r) ==
    CHOOSE i \in Tasks :
        pc[r][i] = "queued" /\ \A j \in 0..(i - 1) : pc[r][j] # "queued"

\* a slip: the seed is never handed to the generator
NeverSeeded == FALSE

\* lines 183-184: random.seed(args.seed) when --seed is given
Seeded == seedArg # <<>>

\* One value of the generator, as the quarter of [0, 1) it falls in; 1, 2 and
\* 3 stand for [0.25, 0.5), [0.5, 0.75) and [0.75, 1).
RandVals == {1, 2, 3}

\* line 148: random.random() < 0.75
Below075(v) == v < 3

\* line 50: random.choice([True, False])
Choice(v) == v < 2

\* A draw of value v by run r.  A seeded generator yields one fixed stream,
\* whatever run reads it: `tape` is the part of the stream read so far.  An
\* unseeded generator (seeded by the system) may yield any value.
Draw(r, v) ==
    IF Seeded
    THEN /\ IF rpos[r] < Len(tape)
            THEN v = tape[rpos[r] + 1] /\ tape' = tape
            ELSE tape' = Append(tape, v)
         /\ rpos' = [rpos EXCEPT ![r] = @ + 1]
    ELSE UNCHANGED <<tape, rpos>>

\* lines 155-158: the text written to the variant's file, line by line
FileText(cls) ==
    <<header, <<"c", "t", "mc">>>> \o [j \in 1..Len(cls) |-> Append(cls[j], 0)]

\* lines 120-127, 137: a worker takes the next index and starts generate_instance
Start(r, i) ==
    /\ pc[r][i] = "queued"
    /\ i = NextTask(r)
    /\ Cardinality(Active(r)) < threads
    /\ LET dst == AllocRef(i)
           st == DeepCopy(store[r], 0, dst)
           hc == count_horn_clauses(st[dst])
       IN  /\ store' = [store EXCEPT ![r] = st]
           /\ ref' = [ref EXCEPT ![r][i] = dst]
           /\ horn_count' = [horn_count EXCEPT ![r][i] = hc]
           /\ pc' = [pc EXCEPT ![r][i] =
                        IF hc < Target(i) THEN "raise"
                        ELSE IF hc > Target(i) THEN "lower" ELSE "coin"]
    /\ k' = [k EXCEPT ![r][i] = 1]
    /\ UNCHANGED <<cnf_file, header, count, threads, seedArg, solution,
                   current_horn_count, out, tape, rpos, seen, drawn>>

\* lines 128-135: one iteration of the raising loop
RaiseStep(r, i) ==
    /\ pc[r][i] = "raise"
    /\ k[r][i] <= Len(Modified(r, i))
    /\ horn_count[r][i] < Target(i)
    /\ LET clause == Modified(r, i)[k[r][i]]
       IN  /\ store' = [store EXCEPT ![r][ref[r][i]][k[r][i]] = RaiseClause(clause)]
           /\ horn_count' = [horn_count EXCEPT ![r][i] = RaiseCount(clause, @)]
    /\ k' = [k EXCEPT ![r][i] = @ + 1]
    /\ UNCHANGED <<cnf_file, header, count, threads, seedArg, ref, pc, solution,
                   current_horn_count, out, tape, rpos, seen, drawn>>

\* lines 138-146: one iteration of the lowering loop
LowerStep(r, i) ==
    /\ pc[r][i] = "lower"
    /\ k[r][i] <= Len(Modified(r, i))
    /\ horn_count[r][i] > Target(i)
    /\ LET clause == Modified(r, i)[k[r][i]]
       IN  /\ store' = [store EXCEPT ![r][ref[r][i]][k[r][i]] = LowerClause(clause)]
           /\ horn_count' = [horn_count EXCEPT ![r][i] = LowerCount(clause, @)]
    /\ k' = [k EXCEPT ![r][i] = @ + 1]
    /\ UNCHANGED <<cnf_file, header, count, threads, seedArg, ref, pc, solution,
                   current_horn_count, out, tape, rpos, seen, drawn>>

\* lines 128-130: the raising loop ends, exhausted or by its break
RaiseExit(r, i) ==
    /\ pc[r][i] = "raise"
    /\ ~(k[r][i] <= Len(Modified(r, i)) /\ horn_count[r][i] < Target(i))
    /\ pc' = [pc EXCEPT ![r][i] = "coin"]
    /\ UNCHANGED <<cnf_file, header, count, threads, seedArg, store, ref,
                   horn_count, k, solution, current_horn_count, out, tape, rpos,
                   seen, drawn>>

\* lines 138-140: the lowering loop ends, exhausted or by its break
LowerExit(r, i) ==
    /\ pc[r][i] = "lower"
    /\ ~(k[r][i] <= Len(Modified(r, i)) /\ horn_count[r][i] > Target(i))
    /\ pc' = [pc EXCEPT ![r][i] = "coin"]
    /\ UNCHANGED <<cnf_file, header, count, threads, seedArg, store, ref,
                   horn_count, k, solution, current_horn_count, out, tape, rpos,
                   seen, drawn>>

\* line 148, then lines 149, 56 and 36-45: the coin comes up "repair" and
\* generate_solution scans the clauses
CoinRepair(r, i) ==
    /\ pc[r][i] = "coin"
    /\ \E v \in RandVals : Below075(v) /\ Draw(r, v)
    /\ solution' = [solution EXCEPT ![r][i] =
                       ScanClauses(Modified(r, i), 1, <<>>, NumVars)]
    /\ pc' = [pc EXCEPT ![r][i] = "fallback"]
    /\ UNCHANGED <<cnf_file, header, count, threads, seedArg, store, ref,
                   horn_count, k, current_horn_count, out, seen, drawn>>

\* line 148, then lines 150-152: the coin comes up "as is"
CoinSkip(r, i) ==
    /\ pc[r][i] = "coin"
    /\ \E v \in RandVals : ~Below075(v) /\ Draw(r, v)
    /\ pc' = [pc EXCEPT ![r][i] = "write"]
    /\ UNCHANGED <<cnf_file, header, count, threads, seedArg, store, ref,
                   horn_count, k, solution, current_horn_count, out, seen, drawn>>

\* lines 48-50: the least variable still unset gets a random value
Fallback(r, i) ==
    /\ pc[r][i] = "fallback"
    /\ Unset(solution[r][i], NumVars) # {}
    /\ LET var == CHOOSE x \in Unset(solution[r][i], NumVars) :
                      \A y \in Unset(solution[r][i], NumVars) : x <= y
       IN  /\ \E v \in RandVals :
                  /\ Draw(r, v)
                  /\ solution' = [solution EXCEPT ![r][i] = @ @@ (var :> Choice(v))]
           /\ drawn' = [drawn EXCEPT ![r][i] = @ \cup {var}]
    /\ UNCHANGED <<cnf_file, header, count, threads, seedArg, store, ref, pc,
                   horn_count, k, current_horn_count, out, seen>>

\* lines 52, 58, 60: generate_solution returns and the repair loop is set up
BeginRepair(r, i) ==
    /\ pc[r][i] = "fallback"
    /\ Unset(solution[r][i], NumVars) = {}
    /\ current_horn_count' = [current_horn_count EXCEPT ![r][i] =
                                 count_horn_clauses(Modified(r, i))]
    /\ k' = [k EXCEPT ![r][i] = 1]
    /\ pc' = [pc EXCEPT ![r][i] = "repair"]
    /\ UNCHANGED <<cnf_file, header, count, threads, seedArg, store, ref,
                   horn_count, solution, out, tape, rpos, seen, drawn>>

\* lines 60-109: one iteration of the repair loop
RepairStep(r, i) ==
    /\ pc[r][i] = "repair"
    /\ k[r][i] <= Len(Modified(r, i))
    /\ LET clause == Modified(r, i)[k[r][i]]
           sol == solution[r][i]
           res == RepairClause(clause, sol, current_horn_count[r][i], Target(i))
       IN  /\ store' = [store EXCEPT ![r][ref[r][i]][k[r][i]] = res[1]]
           /\ current_horn_count' = [current_horn_count EXCEPT ![r][i] = res[2]]
           /\ seen' = [seen EXCEPT ![r][i] =
                          Append(@, [met |-> clause,
                                     sat |-> is_clause_satisfied(clause, sol),
                                     tracker |-> current_horn_count[r][i],
                                     left |-> res[1],
                                     tracker_left |-> res[2]])]
    /\ k' = [k EXCEPT ![r][i] = @ + 1]
    /\ UNCHANGED <<cnf_file, header, count, threads, seedArg, ref, pc, horn_count,
                   solution, out, tape, rpos, drawn>>

\* line 111: make_satisfiable returns
RepairReturn(r, i) ==
    /\ pc[r][i] = "repair"
    /\ k[r][i] > Len(Modified(r, i))
    /\ pc' = [pc EXCEPT ![r][i] = "write"]
    /\ UNCHANGED <<cnf_file, header, count, threads, seedArg, store, ref,
                   horn_count, k, solution, current_horn_count, out, tape, rpos,
                   seen, drawn>>

\* lines 154-162: the variant is written to its own file
WriteFile(r, i) ==
    /\ pc[r][i] = "write"
    /\ out' = [out EXCEPT ![r][i] = FileText(Modified(r, i))]
    /\ pc' = [pc EXCEPT ![r][i] = "done"]
    /\ UNCHANGED <<cnf_file, header, count, threads, seedArg, store, ref,
                   horn_count, k, solution, current_horn_count, tape, rpos, seen,
                   drawn>>

\* lines 164-166: some worker of some run takes a step of its task
Next ==
    \/ \E r \in Runs : \E i \in Tasks : Start(r, i)
    \/ \E r \in Runs : \E i \in Tasks : RaiseStep(r, i)
    \/ \E r \in Runs : \E i \in Tasks : LowerStep(r, i)
    \/ \E r \in Runs : \E i \in Tasks : RaiseExit(r, i)
    \/ \E r \in Runs : \E i \in Tasks : LowerExit(r, i)
    \/ \E r \in Runs : \E i \in Tasks : CoinRepair(r, i)
    \/ \E r \in Runs : \E i \in Tasks : CoinSkip(r, i)
    \/ \E r \in Runs : \E i \in Tasks : Fallback(r, i)
    \/ \E r \in Runs : \E i \in Tasks : BeginRepair(r, i)
    \/ \E r \in Runs : \E i \in Tasks : RepairStep(r, i)
    \/ \E r \in Runs : \E i \in Tasks : RepairReturn(r, i)
    \/ \E r \in Runs : \E i \in Tasks : WriteFile(r, i)

\* the state after parse_cnf_file and argument parsing: nv variables, clause
\* list f, --count c, --threads t, --seed sa, for each run of `runs`
Setup(nv, f, c, t, sa, runs) ==
    /\ cnf_file = f
    /\ header = <<"p", "cnf", nv, Len(f)>>
    /\ count = c
    /\ threads = t
    /\ seedArg = sa
    /\ store = [r \in runs |-> [x \in 0..c |-> IF x = 0 THEN f ELSE <<>>]]
    /\ ref = [r \in runs |-> [i \in 0..(c - 1) |-> 0]]
    /\ pc = [r \in runs |-> [i \in 0..(c - 1) |-> "queued"]]
    /\ horn_count = [r \in runs |-> [i \in 0..(c - 1) |-> 0]]
    /\ k = [r \in runs |-> [i \in 0..(c - 1) |-> 0]]
    /\ solution = [r \in runs |-> [i \in 0..(c - 1) |-> <<>>]]
    /\ current_horn_count = [r \in runs |-> [i \in 0..(c - 1) |-> 0]]
    /\ out = [r \in runs |-> [i \in 0..(c - 1) |-> <<>>]]
    /\ tape = <<>>
    /\ rpos = [r \in runs |-> 0]
    /\ seen = [r \in runs |-> [i \in 0..(c - 1) |-> <<>>]]
    /\ drawn = [r \in runs |-> [i \in 0..(c - 1) |-> {}]]

\* seed formulas beyond MaxLits that reach the deeper branches of the repair
DeepSeeds ==
    { << <<1, 1>>, <<1, 1>> >>,
      << <<-1>>, <<1, 1>>, <<1, 1>> >>,
      << <<-1>>, <<1, 1, 1>> >>,
      << <<1>>, <<1, 1, -1>> >>,
      << <<1, 1, -2>>, <<2>> >>,
      << <<-1, 2>>, <<1, 1>>, <<1, 1, -2>> >>,
      << <<2, 2, -1>>, <<1, 1>>, <<-2, 1>> >> }

\* those of them over the variables 1..nv
ExtraSeeds(nv) ==
    {f \in DeepSeeds :
        \A j \in 1..Len(f) : \A p \in 1..Len(f[j]) : Abs(f[j][p]) <= nv}

\* one run with a single worker, every small seed formula
Init ==
    \E nv \in 1..MaxVars : \E f \in Formulas(nv, MaxLits) \cup ExtraSeeds(nv) :
        \E c \in 1..MaxCount : Setup(nv, f, c, 1, <<>>, {1})

Spec == Init /\ [][Next]_vars

\* seed formulas for the runs with several workers: every formula of at most
\* two literals, and some longer ones that the adjustment and the repair rewrite
PoolSeeds ==
    Formulas(2, 2) \cup
    { << <<1, 2>>, <<-1, -2>> >>,
      << <<-1>>, <<1, 1>> >>,
      << <<1, 2>>, <<1, 2>> >>,
      << <<1>>, <<-1>>, <<-2, -1>> >>,
      << <<-1, 2>>, <<1, 1>>, <<1, 1, -2>> >> }

\* one run, one to MaxThreads workers
InitPool ==
    \E f \in PoolSeeds : \E c \in 1..MaxCount : \E t \in 1..MaxThreads :
        Setup(2, f, c, t, <<>>, {1})

\* the pool runs every task it was given to its end
SpecPool == InitPool /\ [][Next]_vars /\ WF_vars(Next)

\* seed formulas for the repeated runs; variable 2 occurs in no clause
RunSeeds ==
    { << <<1>>, <<-1>> >>,
      << <<1, 1>>, <<1, 1>> >> }

\* the same command line run twice, with one worker, with and without --seed
InitRuns ==
    \E f \in RunSeeds : \E c \in 1..MaxCount : \E sa \in {<<>>, <<7>>} :
        Setup(2, f, c, 1, sa, {1, 2})

SpecRuns == InitRuns /\ [][Next]_vars

(***************************************************************************)
(* The properties.                                                         *)
(***************************************************************************)
\* the Horn count of the seed, generate_instance's `current`
SeedHorn == count_horn_clauses(cnf_file)

\* the clauses of the seed with more than one positive literal
EligibleUp == Cardinality({j \in 1..Len(cnf_file) : PosCount(cnf_file[j]) > 1})

\* the Horn clauses of the seed that have two positive literals or more once
\* their first two negative literals are made positive
EligibleDown ==
    Cardinality({j \in 1..Len(cnf_file) :
        /\ PosCount(cnf_file[j]) <= 1
        /\ PosCount(cnf_file[j]) + Min(2, Len(NegativeLits(cnf_file[j]))) >= 2})

\* C1: when the seed has fewer Horn clauses than the target, the list that
\* leaves the adjustment has min(target, current + E) Horn clauses, E the
\* number of seed clauses with more than one positive literal.
C1_RaiseReachesMin ==
    \A r \in Runs : \A i \in Tasks :
        (pc[r][i] = "coin" /\ SeedHorn < Target(i))
            => count_horn_clauses(Modified(r, i))
                   = Min(Target(i), SeedHorn + EligibleUp)

\* a raising adjustment that rewrote a clause and reached its target
C1_Witness ==
    \E r \in Runs : \E i \in Tasks :
        /\ pc[r][i] = "coin"
        /\ SeedHorn < Target(i)
        /\ Modified(r, i) # cnf_file
        /\ count_horn_clauses(Modified(r, i)) = Target(i)

\* C2: when the seed has more Horn clauses than the target, the list that
\* leaves the adjustment has max(target, current - E) Horn clauses, E the
\* number of eligible Horn clauses of the seed.
C2_LowerReachesMax ==
    \A r \in Runs : \A i \in Tasks :
        (pc[r][i] = "coin" /\ SeedHorn > Target(i))
            => count_horn_clauses(Modified(r, i))
                   = Max(Target(i), SeedHorn - EligibleDown)

\* a lowering adjustment that rewrote a clause and still stopped above its target
C2_Witness ==
    \E r \in Runs : \E i \in Tasks :
        /\ pc[r][i] = "coin"
        /\ SeedHorn > Target(i)
        /\ EligibleDown > 0
        /\ Modified(r, i) # cnf_file
        /\ count_horn_clauses(Modified(r, i)) > Target(i)

SameShape(a, b) ==
    /\ Len(a) = Len(b)
    /\ \A j \in 1..Len(a) :
           /\ Len(a[j]) = Len(b[j])
           /\ \A p \in 1..Len(a[j]) : Abs(a[j][p]) = Abs(b[j][p])

\* C3: at every point of a variant's generation, adjustment and repair
\* included, its clause list has the seed's clauses, literal for literal, up
\* to sign.
C3_ShapePreserved ==
    \A r \in Runs : \A i \in Tasks :
        pc[r][i] # "queued" => SameShape(Modified(r, i), cnf_file)

\* a variant whose signs were changed by the adjustment and again by the repair
C3_Witness ==
    \E r \in Runs : \E i \in Tasks :
        /\ pc[r][i] = "write"
        /\ horn_count[r][i] # SeedHorn
        /\ \E j \in 1..Len(seen[r][i]) : seen[r][i][j].left # seen[r][i][j].met

\* C4: a clause the repairer met satisfied is, while make_satisfiable runs
\* and when it has returned, the clause it met, and the visit left the
\* running Horn count as it was.
C4_SatisfiedLeftAlone ==
    \A r \in Runs : \A i \in Tasks :
        pc[r][i] \in {"repair", "write"} =>
            \A j \in 1..Len(seen[r][i]) :
                seen[r][i][j].sat =>
                    /\ Modified(r, i)[j] = seen[r][i][j].met
                    /\ seen[r][i][j].tracker_left = seen[r][i][j].tracker

\* make_satisfiable has returned, having met one clause satisfied and having
\* rewritten another
C4_Witness ==
    \E r \in Runs : \E i \in Tasks :
        /\ pc[r][i] = "write"
        /\ \E j \in 1..Len(seen[r][i]) : seen[r][i][j].sat
        /\ \E j \in 1..Len(seen[r][i]) : seen[r][i][j].left # seen[r][i][j].met

\* the literals of a clause list, in clause order then literal order
RECURSIVE Flatten(_)
Flatten(cls) == IF cls = <<>> THEN <<>> ELSE Head(cls) \o Flatten(Tail(cls))

Occurs(cls, v) == \E p \in 1..Len(Flatten(cls)) : Abs(Flatten(cls)[p]) = v

\* the polarity of the first literal on variable v
FirstPolarity(cls, v) ==
    LET lits == Flatten(cls)
        p == CHOOSE q \in 1..Len(lits) :
                 Abs(lits[q]) = v /\ \A o \in 1..(q - 1) : Abs(lits[o]) # v
    IN  lits[p] > 0

\* C5: the assignment generate_solution returns covers exactly 1..num_vars;
\* a variable that occurs in a clause has the polarity of its first
\* occurrence and was not drawn at random; the others were drawn.
C5_AssignmentFirstOccurrence ==
    \A r \in Runs : \A i \in Tasks :
        (pc[r][i] = "repair" /\ k[r][i] = 1) =>
            /\ DOMAIN solution[r][i] = 1..NumVars
            /\ \A v \in 1..NumVars :
                   IF Occurs(Modified(r, i), v)
                   THEN /\ solution[r][i][v] = FirstPolarity(Modified(r, i), v)
                        /\ v \notin drawn[r][i]
                   ELSE v \in drawn[r][i]

\* an assignment with a variable drawn at random and a variable that occurs
\* with both polarities
C5_Witness ==
    \E r \in Runs : \E i \in Tasks :
        /\ pc[r][i] = "repair"
        /\ k[r][i] = 1
        /\ drawn[r][i] # {}
        /\ \E v \in 1..NumVars :
               LET lits == Flatten(Modified(r, i))
               IN  /\ \E p \in 1..Len(lits) : lits[p] = v
                   /\ \E p \in 1..Len(lits) : lits[p] = -v

\* C6: with one worker and --seed given, two runs of the same command line
\* write the same text for every variant.
C6_SingleWorkerDeterminism ==
    (threads = 1 /\ seedArg # <<>>) =>
        \A i \in Tasks : \A r1 \in Runs : \A r2 \in Runs :
            (pc[r1][i] = "done" /\ pc[r2][i] = "done") => out[r1][i] = out[r2][i]

\* two seeded single-worker runs have finished; one variant was written as
\* adjusted, another was rewritten by the repair
C6_Witness ==
    /\ threads = 1
    /\ seedArg # <<>>
    /\ Cardinality(Runs) = 2
    /\ \A r \in Runs : \A i \in Tasks : pc[r][i] = "done"
    /\ \A r \in Runs :
           /\ \E i \in Tasks : seen[r][i] = <<>> /\ DOMAIN solution[r][i] = {}
           /\ \E i \in Tasks : \E j \in 1..Len(seen[r][i]) :
                  seen[r][i][j].left # seen[r][i][j].met

\* the adjustment loop of generate_instance run over the first m clauses at most
RECURSIVE RaiseFrom(_, _, _, _, _)
RaiseFrom(cls, j, hc, target, m) ==
    IF j > m \/ hc >= target THEN cls
    ELSE RaiseFrom([cls EXCEPT ![j] = RaiseClause(cls[j])], j + 1,
                   RaiseCount(cls[j], hc), target, m)

RECURSIVE LowerFrom(_, _, _, _, _)
LowerFrom(cls, j, hc, target, m) ==
    IF j > m \/ hc <= target THEN cls
    ELSE LowerFrom([cls EXCEPT ![j] = LowerClause(cls[j])], j + 1,
                   LowerCount(cls[j], hc), target, m)

AdjustedUpTo(cls, target, m) ==
    IF count_horn_clauses(cls) < target
    THEN RaiseFrom(cls, 1, count_horn_clauses(cls), target, m)
    ELSE LowerFrom(cls, 1, count_horn_clauses(cls), target, m)

Adjusted(cls, target) == AdjustedUpTo(cls, target, Len(cls))

\* C7: whatever the pool size and the interleaving, the seed list stays what
\* was parsed, and the list a task holds is a function of the seed, the
\* task's index and the task's own progress: the adjustment of the seed up to
\* the task's position, then the clauses as the task's own repair left them.
C7_TaskIsolation ==
    \A r \in Runs :
        /\ store[r][0] = cnf_file
        /\ \A i \in Tasks :
               /\ pc[r][i] \in {"raise", "lower"} =>
                      Modified(r, i) = AdjustedUpTo(cnf_file, Target(i), k[r][i] - 1)
               /\ pc[r][i] \in {"coin", "fallback"} =>
                      Modified(r, i) = Adjusted(cnf_file, Target(i))
               /\ pc[r][i] \in {"repair", "write"} =>
                      Modified(r, i) =
                          [j \in 1..Len(cnf_file) |->
                              IF j <= Len(seen[r][i]) THEN seen[r][i][j].left
                              ELSE Adjusted(cnf_file, Target(i))[j]]

\* two tasks are under way at once, each having rewritten its own copy
C7_Witness ==
    \E r \in Runs : \E i \in Tasks : \E j \in Tasks :
        /\ i # j
        /\ pc[r][i] \in {"raise", "lower", "coin"}
        /\ pc[r][j] \in {"repair", "write"}
        /\ Modified(r, i) # cnf_file
        /\ Modified(r, j) # cnf_file
        /\ Modified(r, i) # Modified(r, j)

\* a clause that was satisfied when the repairer left it is unsatisfied now
Rebroken(r, i) ==
    /\ pc[r][i] \in {"repair", "write"}
    /\ \E j \in 1..Len(seen[r][i]) :
           /\ is_clause_satisfied(seen[r][i][j].left, solution[r][i])
           /\ ~is_clause_satisfied(Modified(r, i)[j], solution[r][i])

\* C8, as claimed: some run of make_satisfiable comes to a state in which a
\* clause it left satisfied is unsatisfied after a later clause was processed.
C8_RebreakHappens == <>(\E r \in Runs : \E i \in Tasks : Rebroken(r, i))

\* C8, amended: during a run of make_satisfiable and at its return, every
\* clause that was satisfied when the repairer left it is still satisfied.
C8_NeverRebroken == \A r \in Runs : \A i \in Tasks : ~Rebroken(r, i)

\* the repairer left a clause satisfied and has since rewritten a later one
C8_Witness ==
    \E r \in Runs : \E i \in Tasks :
        /\ pc[r][i] \in {"repair", "write"}
        /\ \E j1 \in 1..Len(seen[r][i]) : \E j2 \in 1..Len(seen[r][i]) :
               /\ j1 < j2
               /\ is_clause_satisfied(seen[r][i][j1].left, solution[r][i])
               /\ seen[r][i][j2].left # seen[r][i][j2].met

\* C9: when make_satisfiable returns, every clause of the list is satisfied
\* by the assignment built at the start of the call.
C9_AllSatisfiedAtReturn ==
    \A r \in Runs : \A i \in Tasks :
        (pc[r][i] = "write" /\ DOMAIN solution[r][i] # {}) =>
            \A j \in 1..Len(Modified(r, i)) :
                is_clause_satisfied(Modified(r, i)[j], solution[r][i])

\* make_satisfiable has returned after meeting an unsatisfied clause
C9_Witness ==
    \E r \in Runs : \E i \in Tasks :
        /\ pc[r][i] = "write"
        /\ \E j \in 1..Len(seen[r][i]) : ~seen[r][i][j].sat

\* C10: through the adjustment the counter horn_count, and through the
\* repair the counter current_horn_count, is the Horn count of the list as
\* it stands.
C10_TrackerAccurate ==
    \A r \in Runs : \A i \in Tasks :
        /\ pc[r][i] \in {"raise", "lower", "coin"} =>
               horn_count[r][i] = count_horn_clauses(Modified(r, i))
        /\ pc[r][i] = "repair" =>
               current_horn_count[r][i] = count_horn_clauses(Modified(r, i))

\* the repair has moved its counter, after an adjustment that moved horn_count
C10_Witness ==
    \E r \in Runs : \E i \in Tasks :
        /\ pc[r][i] = "repair"
        /\ horn_count[r][i] # SeedHorn
        /\ \E j \in 1..Len(seen[r][i]) :
               seen[r][i][j].tracker_left # seen[r][i][j].tracker

====
